---------------------------- MODULE Spec2Model ----------------------------
(***************************************************************************)
(* Model of the synchronization engine of claude-code-sync:                *)
(*   - platform content merge   (src/src/handlers/platform_filter.rs)      *)
(*   - discovery/deduplication  (src/src/sync/discovery.rs)                *)
(*   - the push/diff engine     (src/src/sync/push.rs)                     *)
(* The parts are checked by separate specifications over shared variables. *)
(***************************************************************************)
EXTENDS Integers, Sequences, FiniteSets, TLC

VARIABLES
    \* ---- platform content merge ----
    mstage,     \* "input" before merge_claude_md ran, "merged" after
    source,     \* source_content : sequence of lexemes
    target,     \* target_content : sequence of lexemes
    current,    \* current : Platform
    merged,     \* the String returned by merge_claude_md
    \* ---- discovery ----
    dstage,     \* "input" before discover_sessions ran, "found" after
    walk,       \* the entries WalkDir yields under base_path, in its order
    found,      \* the Vec<ConversationSession> returned (order unspecified)
    \* ---- push ----
    local,      \* per device: the transcript files under ~/.claude/projects
    ldirs,      \* per device: the project directories under ~/.claude/projects
    synced,     \* the session files under <sync repo>/<sync_subdirectory>
    cfg,        \* per device: filter.use_project_name_only
    pc,         \* position of the running push_history, "idle" if none runs
    pusher,     \* the device whose push_history runs (or ran last)
    sessions,   \* sessions: the result of local discovery
    todo,       \* the sessions the write loop has not visited yet
    existing,   \* existing_sessions: the result of discovery in the sync repo
    counts,     \* added_count, modified_count, unchanged_count, skipped_no_cwd,
                \* deleted_from_repo
    removed,    \* the synced files removed by the running push
    lastPush,   \* the device whose push completed last, "none" before any
    dirty,      \* per device: local tree changed since its last completed push
    isRepeat,   \* the running push repeats the last completed one unchanged
    everNames,  \* per device: the file names its local tree has ever held
    edits,      \* number of changes made to local trees so far
    pushes,     \* number of pushes started so far
    touched,            \* the trees the running push has written to or removed from
    classified,         \* the sessions the running push has classified, each
                        \* with its operation
    failures,           \* the kinds of per-item failure the running push has met
    killed,             \* the last push that was killed: its device, the trees
                        \* it left, and what it would have produced
    interactive,        \* interactive && is_interactive() of the running push
    prompts,            \* the prompts the running push has shown
    confirmed,          \* the user confirmed the diff summary of the running push
    writes,             \* write_to_file calls made by the running push
    atStart,            \* synced tree, commits and history when the push began
    outcome,            \* how the last push_history call ended
    headTree,           \* the session files of the repository's last commit
    commits,            \* number of commits; revisions are named 1..commits
    remote,             \* the revision last pushed to the remote
    commit_before_push, \* commit_before_push of the running push
    history,            \* the operation history: a sequence of OperationRecords
    \* ---- filter configuration ----
    persisted,  \* the FilterConfig the configuration file holds
    prior,      \* the configuration file before the last update_config call
    cargs,      \* the arguments of the last update_config call
    cresult,    \* its result: "ok", "err", or "none" before any call
    calls,      \* number of update_config calls so far
    \* ---- layout check ----
    lstage,     \* "input" before the check ran, "checked" after
    tops,       \* the names of the top-level directories of the synced tree
    lmode,      \* use_project_name_only
    verdict,    \* the DirectoryStructureCheck returned
    \* ---- auto-apply of CLAUDE.md ----
    astage,       \* "input" before auto_apply_claude_md ran, "done" after
    auto_enabled, \* settings.enabled && settings.auto_apply_claude_md
    read_order,   \* the order in which read_dir lists the device directories
    sync_info,    \* per device: lastSync of its .sync-info.json, NoRecord if none
    peer_md,      \* per device: the CLAUDE.md in its configuration directory
    local_md,     \* the content of the local CLAUDE.md ("" when absent)
    local_was,    \* the local CLAUDE.md before auto_apply_claude_md ran
    applied_from, \* the device whose CLAUDE.md was applied, "none" if none was
    \* ---- memory sync of a push ----
    mem_stage,    \* "input" before the memory sync ran, "synced" after
    mem_mode,     \* filter.use_project_name_only
    mem_tree,     \* the transcript files of the local tree
    mem_local,    \* per local project directory: its memory directory
    mem_synced,   \* per synced project directory: the files of its memory directory
    mem_removed,  \* the <<synced project, file name>> pairs the sync removed
    \* ---- find_local_project_by_name ----
    lk_stage,     \* "input" before the lookup ran, "found" after
    lk_entries,   \* the directories of claude_projects_dir, in read_dir order
    lk_name,      \* project_name, the name looked up
    lk_result     \* the index in lk_entries of the directory returned, 0 for None

mergeVars == <<mstage, source, target, current, merged>>

discVars == <<dstage, walk, found>>

faultVars == <<failures, killed>>

runVars == <<interactive, prompts, confirmed, writes, atStart, outcome>>

vcsVars == <<headTree, commits, remote, commit_before_push, history>>

pushVars == <<local, ldirs, synced, cfg, pc, pusher, sessions, todo, existing,
              counts, removed, lastPush, dirty, isRepeat, everNames, edits, pushes,
              touched, classified, faultVars, runVars, vcsVars>>

confVars == <<persisted, prior, cargs, cresult, calls>>

layVars == <<lstage, tops, lmode, verdict>>

applyVars == <<astage, auto_enabled, read_order, sync_info, peer_md, local_md,
               local_was, applied_from>>

memVars == <<mem_stage, mem_mode, mem_tree, mem_local, mem_synced, mem_removed>>

lookupVars == <<lk_stage, lk_entries, lk_name, lk_result>>

auxVars == <<confVars, layVars, applyVars, memVars, lookupVars>>

vars == <<mergeVars, discVars, pushVars, auxVars>>

---------------------------------------------------------------------------
(***************************************************************************)
(* PLATFORM CONTENT MERGE.                                                 *)
(* A document is a sequence of lexemes.  "nl" is a newline, "sp" a blank   *)
(* other than a newline, "a" and "t" are runs of ordinary text, "end" is   *)
(* an end-platform tag and "open:NAME" is a platform tag whose platform    *)
(* name is written NAME.  The two tag patterns of PLATFORM_BLOCK_REGEX     *)
(* (with their optional inner blanks) are each one lexeme.                 *)
(***************************************************************************)
Platforms == {"MacOS", "Windows", "Linux"}

OpenToks == {"open:macos", "open:mac", "open:darwin", "open:windows",
             "open:win", "open:linux", "open:MacOS"}

\* The platform name as written in an opening tag.
OpenName(tok) ==
    CASE tok = "open:macos"   -> "macos"
      [] tok = "open:mac"     -> "mac"
      [] tok = "open:darwin"  -> "darwin"
      [] tok = "open:windows" -> "windows"
      [] tok = "open:win"     -> "win"
      [] tok = "open:linux"   -> "linux"
      [] tok = "open:MacOS"   -> "MacOS"
      [] OTHER                -> "none"

\* str::to_lowercase on the names that occur.
ToLowercase(name) == IF name = "MacOS" THEN "macos" ELSE name

\* The alternation (macos|mac|darwin|windows|win|linux) of the pattern: the
\* pattern carries no case-insensitivity flag.
RegexNames == {"macos", "mac", "darwin", "windows", "win", "linux"}

MatchesOpenTag(tok) == tok \in OpenToks /\ OpenName(tok) \in RegexNames

MatchesEndTag(tok) == tok = "end"

\* Platform::from_tag_name
FromTagName(name) ==
    LET n == ToLowercase(name) IN
    CASE n \in {"macos", "mac", "darwin"} -> "MacOS"
      [] n \in {"windows", "win"}         -> "Windows"
      [] n = "linux"                      -> "Linux"
      [] OTHER                            -> "None"

\* target_names of extract_current_platform_block / filter_for_platform
TargetNames(platform) ==
    CASE platform = "MacOS"   -> {"macos", "mac", "darwin"}
      [] platform = "Windows" -> {"windows", "win"}
      [] platform = "Linux"   -> {"linux"}

MinOf(S) == CHOOSE x \in S : \A y \in S : x <= y

\* Leftmost match of PLATFORM_BLOCK_REGEX at or after index from: <<i, j>>
\* with the opening tag at i and, (.*?) being lazy, the first end tag after
\* it at j; <<0, 0>> when there is none.
FirstMatch(doc, from) ==
    LET starts == {i \in from..Len(doc) :
                     /\ MatchesOpenTag(doc[i])
                     /\ \E j \in (i+1)..Len(doc) : MatchesEndTag(doc[j])}
    IN IF starts = {} THEN <<0, 0>>
       ELSE LET i == MinOf(starts)
                j == MinOf({k \in (i+1)..Len(doc) : MatchesEndTag(doc[k])})
            IN <<i, j>>

\* captures_iter: the successive non-overlapping matches, left to right.
RECURSIVE CapturesIter(_, _)
CapturesIter(doc, from) ==
    LET m == FirstMatch(doc, from)
    IN IF m[1] = 0 THEN <<>>
       ELSE <<m>> \o CapturesIter(doc, m[2] + 1)

\* A replacement that stops at the first match and drops what follows it.
ReplaceAllBlocksTruncating(doc, from) ==
    LET m == FirstMatch(doc, from)
    IN IF m[1] = 0 THEN SubSeq(doc, from, Len(doc))
       ELSE SubSeq(doc, from, m[1] - 1)

\* PLATFORM_BLOCK_REGEX.replace_all(content, "")
RECURSIVE ReplaceAllBlocks(_, _)
ReplaceAllBlocks(doc, from) ==
    LET m == FirstMatch(doc, from)
    IN IF m[1] = 0 THEN SubSeq(doc, from, Len(doc))
       ELSE SubSeq(doc, from, m[1] - 1) \o ReplaceAllBlocks(doc, m[2] + 1)

\* cleanup_blank_lines: every maximal run of three or more newlines becomes
\* two newlines.
RECURSIVE CleanupFrom(_, _, _)
CleanupFrom(doc, i, run) ==
    IF i > Len(doc) THEN <<>>
    ELSE IF doc[i] = "nl"
         THEN (IF run < 2 THEN <<"nl">> ELSE <<>>) \o CleanupFrom(doc, i + 1, run + 1)
         ELSE <<doc[i]>> \o CleanupFrom(doc, i + 1, 0)

cleanup_blank_lines(doc) == CleanupFrom(doc, 1, 0)

Whitespace == {"nl", "sp"}

\* str::trim_end
RECURSIVE TrimEnd(_)
TrimEnd(doc) ==
    IF doc # <<>> /\ doc[Len(doc)] \in Whitespace
    THEN TrimEnd(SubSeq(doc, 1, Len(doc) - 1))
    ELSE doc

\* Option::None of extract_current_platform_block (a match is never empty).
NoBlock == <<>>

RECURSIVE FirstBlockOf(_, _, _)
FirstBlockOf(doc, caps, names) ==
    IF caps = <<>> THEN NoBlock
    ELSE LET m == Head(caps)
         IN IF ToLowercase(OpenName(doc[m[1]])) \in names
            THEN SubSeq(doc, m[1], m[2])
            ELSE FirstBlockOf(doc, Tail(caps), names)

RECURSIVE FirstBodyOf(_, _, _)
FirstBodyOf(doc, caps, names) ==
    IF caps = <<>> THEN NoBlock
    ELSE LET m == Head(caps)
         IN IF ToLowercase(OpenName(doc[m[1]])) \in names
            THEN SubSeq(doc, m[1] + 1, m[2] - 1)
            ELSE FirstBodyOf(doc, Tail(caps), names)

\* An extraction that returns capture group 2 (the body) instead of the
\* whole match.
ExtractBlockBodyOnly(content, platform) ==
    FirstBodyOf(content, CapturesIter(content, 1), TargetNames(platform))

extract_current_platform_block(content, platform) ==
    FirstBlockOf(content, CapturesIter(content, 1), TargetNames(platform))

\* has_platform_blocks
has_platform_blocks(content) == FirstMatch(content, 1)[1] # 0

\* extract_platform_blocks: the platforms of the blocks found, in order.
extract_platform_blocks(content) ==
    LET caps == CapturesIter(content, 1)
    IN [k \in 1..Len(caps) |-> FromTagName(OpenName(content[caps[k][1]]))]

merge_claude_md(source_content, target_content, cur) ==
    LET source_common == cleanup_blank_lines(ReplaceAllBlocks(source_content, 1))
        target_platform_block == extract_current_platform_block(target_content, cur)
    IN IF target_platform_block # NoBlock
       THEN TrimEnd(source_common) \o <<"nl">> \o target_platform_block \o <<"nl">>
       ELSE source_common

---------------------------------------------------------------------------
\* Bounds and input alphabets of the merge specification.
MaxSrcLen == 4
MaxTgtLen == 3

MaxAliasLen == 3

SrcAlphabet == {"a", "sp", "nl", "open:macos", "end"}
TgtAlphabet == {"t", "open:macos", "open:linux", "end"}

\* The platforms the merge is run on.
MergePlatforms == {"MacOS", "Linux"}

SeqsUpTo(S, n) == UNION {[1..k -> S] : k \in 0..n}

\* The merge variables when no merge is under way.
MergeIdle ==
    /\ mstage = "off"
    /\ source = <<>>
    /\ target = <<>>
    /\ current = "Linux"
    /\ merged = <<>>

MergeInputs ==
    /\ mstage = "input"
    /\ source \in SeqsUpTo(SrcAlphabet, MaxSrcLen)
    /\ target \in SeqsUpTo(TgtAlphabet, MaxTgtLen)
    /\ current \in MergePlatforms
    /\ merged = <<>>

MergeClaudeMd ==
    /\ mstage = "input"
    /\ merged' = merge_claude_md(source, target, current)
    /\ mstage' = "merged"
    /\ UNCHANGED <<source, target, current>>
    /\ UNCHANGED <<discVars, pushVars, auxVars>>

---------------------------------------------------------------------------
(***************************************************************************)
(* DISCOVERY AND DEDUPLICATION.                                            *)
(* WalkDir yields the entries under base_path in directory order.  An      *)
(* entry is a transcript that parses ("session"), a .jsonl file the filter *)
(* rejects ("excluded"), a .jsonl file that fails to parse ("corrupt") or  *)
(* a file with another extension ("other").                                *)
(***************************************************************************)
\* The sessions pushed to the Vec by the walk loop, in walk order.
ParsedSessions(entries) ==
    SelectSeq(entries, LAMBDA e : e.kind = "session")

\* Position of the entry of session_map with this key, 0 if none.
MapIndex(map, id) ==
    IF \E k \in 1..Len(map) : map[k].session_id = id
    THEN CHOOSE k \in 1..Len(map) : map[k].session_id = id
    ELSE 0

\* An insertion that also replaces the entry when the counts are equal.
InsertOrReplaceOnTie(map, session) ==
    LET k == MapIndex(map, session.session_id)
    IN IF k = 0 THEN Append(map, session)
       ELSE IF session.message_count >= map[k].message_count
            THEN [map EXCEPT ![k] = session]
            ELSE map

\* session_map.entry(id).and_modify(..).or_insert(session)
InsertOrModify(map, session) ==
    LET k == MapIndex(map, session.session_id)
    IN IF k = 0 THEN Append(map, session)
       ELSE IF session.message_count > map[k].message_count
            THEN [map EXCEPT ![k] = session]
            ELSE map

RECURSIVE DedupFold(_, _)
DedupFold(list, map) ==
    IF list = <<>> THEN map
    ELSE DedupFold(Tail(list), InsertOrModify(map, Head(list)))

Range(f) == {f[k] : k \in DOMAIN f}

\* A discovery that returns every parsed file, without deduplication.
DiscoverWithoutDedup(entries) == Range(ParsedSessions(entries))

\* discover_sessions: the values of session_map, in no particular order.
discover_sessions(entries) == Range(DedupFold(ParsedSessions(entries), <<>>))

\* Bounds and inputs of the discovery specification.
MaxWalk == 3
MaxCount == 2

WalkSessionIds == {"S1", "S2"}

\* The entry at position k of a walk; its path is its position.
EntryShapes ==
    [kind : {"session"}, session_id : WalkSessionIds, message_count : 0..MaxCount]
      \cup [kind : {"excluded", "corrupt", "other"}, session_id : {"-"},
            message_count : {0}]

WithPaths(shapes) ==
    [k \in 1..Len(shapes) |->
        [file_path |-> k, kind |-> shapes[k].kind,
         session_id |-> shapes[k].session_id,
         message_count |-> shapes[k].message_count]]

DiscIdle ==
    /\ dstage = "off"
    /\ walk = <<>>
    /\ found = {}

DiscInputs ==
    /\ dstage = "input"
    /\ \E shapes \in SeqsUpTo(EntryShapes, MaxWalk) : walk = WithPaths(shapes)
    /\ found = {}

DiscoverSessions ==
    /\ dstage = "input"
    /\ found' = discover_sessions(walk)
    /\ dstage' = "found"
    /\ UNCHANGED walk
    /\ UNCHANGED <<mergeVars, pushVars, auxVars>>

---------------------------------------------------------------------------
(***************************************************************************)
(* PUSH.                                                                   *)
(* A file is a record: its directory and name, the session it parses to    *)
(* (session_id, message_count, content_hash, project_name, "none" when the *)
(* transcript records no working directory) and the device that wrote it.  *)
(* A tree is a set of files with distinct (dir, name).                     *)
(***************************************************************************)
Devices == {"A", "B"}

NoProject == "none"

\* The project a local project directory was created for: the last
\* component of the working directory its name encodes.
DirProject(d) ==
    CASE d = "-a-myapp" -> "myapp"
      [] d = "-b-myapp" -> "myapp"
      [] d = "-a-other" -> "other"

\* The project directories each device may hold.
DeviceDirs(dev) ==
    IF dev = "A" THEN {"-a-myapp", "-b-myapp"} ELSE {"-a-myapp", "-a-other"}

FileNames == {"x.jsonl", "y.jsonl"}

SessionIds == {"S1", "S2"}

\* The contents a transcript may have.
Contents == {[message_count |-> 1, content_hash |-> "h1"],
             [message_count |-> 2, content_hash |-> "h2"]}

\* Directory order of a walk: by directory, then by file name.
DirOrder == <<"-a-myapp", "-a-other", "-b-myapp", "myapp", "other">>

NameOrder == <<"x.jsonl", "y.jsonl">>

IndexOf(seq, x) == CHOOSE i \in 1..Len(seq) : seq[i] = x

PathKey(f) == IndexOf(DirOrder, f.dir) * (Len(NameOrder) + 1) + IndexOf(NameOrder, f.name)

\* WalkDir over a tree: its files in directory order.
RECURSIVE WalkOrder(_)
WalkOrder(tree) ==
    IF tree = {} THEN <<>>
    ELSE LET f == CHOOSE f \in tree : \A g \in tree : PathKey(f) <= PathKey(g)
         IN <<f>> \o WalkOrder(tree \ {f})

\* ConversationSession::project_name
project_name(session) == session.project_name

\* compute_relative_path when the synced directory is taken from the file's
\* location in both modes.
ComputeRelativePathKeepsDir(session, use_project_name_only) ==
    IF use_project_name_only /\ project_name(session) = NoProject
    THEN <<>>
    ELSE <<session.dir, session.name>>

\* compute_relative_path when the project-name-only branch never gives up.
ComputeRelativePathNeverNone(session, use_project_name_only) ==
    IF use_project_name_only /\ project_name(session) # NoProject
    THEN <<project_name(session), session.name>>
    ELSE <<session.dir, session.name>>

\* compute_relative_path: <<directory, file name>> under the synced tree,
\* <<>> for None.
compute_relative_path(session, use_project_name_only) ==
    IF use_project_name_only
    THEN IF project_name(session) = NoProject
         THEN <<>>
         ELSE <<project_name(session), session.name>>
    ELSE <<session.dir, session.name>>

\* A file_path that strip_prefix(&claude_dir) never matches.
FilePathOutsideClaudeDir(session) == FALSE

\* strip_prefix(&claude_dir) succeeds on session.file_path: the path was
\* yielded by WalkDir::new(claude_dir), which prefixes every entry with it.
file_path_under_claude_dir(session) ==
    session.dir \in UNION {DeviceDirs(dev) : dev \in Devices}

\* The tree dest_path = projects_dir.join(relative_path) lies in: join with
\* an absolute path (the fallback of strip_prefix) gives that path, the
\* session's own file in the local tree.
dest_root(session, use_project_name_only) ==
    IF ~use_project_name_only /\ ~file_path_under_claude_dir(session)
    THEN "local"
    ELSE "synced"

\* session.write_to_file(dest_path): the tree with the file at dest_path
\* created or replaced by a copy of the session.
write_to_file(tree, session, dest, dev) ==
    {f \in tree : ~(f.dir = dest[1] /\ f.name = dest[2])}
      \cup {[session EXCEPT !.dir = dest[1], !.name = dest[2], !.origin = dev]}

\* A classification that never finds a session unchanged.
OperationNeverUnchanged(session, existing_sessions) ==
    IF \E e \in existing_sessions : e.session_id = session.session_id
    THEN "Modified"
    ELSE "Added"

\* The operation chosen for a session against existing_map.
Operation(session, existing_sessions) ==
    IF \E e \in existing_sessions : e.session_id = session.session_id
    THEN LET e == CHOOSE e \in existing_sessions : e.session_id = session.session_id
         IN IF e.content_hash = session.content_hash THEN "Unchanged" ELSE "Modified"
    ELSE "Added"

\* Counters that leave out the sessions found unchanged.
CountOnlyChanges(c, operation) ==
    CASE operation = "Unchanged" -> c
      [] operation = "Modified"  -> [c EXCEPT !.modified = @ + 1]
      [] operation = "Added"     -> [c EXCEPT !.added = @ + 1]

\* unchanged_count += 1, modified_count += 1 or added_count += 1
CountOperation(c, operation) ==
    CASE operation = "Unchanged" -> [c EXCEPT !.unchanged = @ + 1]
      [] operation = "Modified"  -> [c EXCEPT !.modified = @ + 1]
      [] operation = "Added"     -> [c EXCEPT !.added = @ + 1]

ZeroCounts == [added |-> 0, modified |-> 0, unchanged |-> 0, skipped |-> 0,
               deleted |-> 0]

\* local_files_by_project: for each local project directory (by name), the
\* names of the .jsonl files listed in it.
local_files_by_project(dev) ==
    [d \in ldirs[dev] |-> {f.name : f \in {g \in local[dev] : g.dir = d}}]

\* project_name_has_local: the project names of the discovered sessions.
project_name_has_local(discovered) ==
    {project_name(s) : s \in {t \in discovered : project_name(t) # NoProject}}

\* local_files_by_name: per project name, the file names of the discovered
\* sessions of that project.
local_files_by_name(discovered, pname) ==
    {s.name : s \in {t \in discovered : project_name(t) = pname}}

\* The project-name-only scan without the check that the project exists
\* locally.
FilesToRemoveByNameUnscoped(tree, discovered) ==
    {f \in tree : f.name \notin local_files_by_name(discovered, f.dir)}

\* The files the project-name-only scan removes from the synced tree.
FilesToRemoveByName(tree, discovered) ==
    {f \in tree :
        /\ f.dir \in project_name_has_local(discovered)
        /\ f.name \notin local_files_by_name(discovered, f.dir)}

\* A full-path scan that trusts a killed push to have finished the removals.
FilesToRemoveByDirUnlessResumed(tree, dev) ==
    IF killed.dev = dev THEN {}
    ELSE {f \in tree :
            /\ f.dir \in DOMAIN local_files_by_project(dev)
            /\ f.name \notin local_files_by_project(dev)[f.dir]}

\* The files the full-path scan removes from the synced tree.
FilesToRemoveByDir(tree, dev) ==
    {f \in tree :
        /\ f.dir \in DOMAIN local_files_by_project(dev)
        /\ f.name \notin local_files_by_project(dev)[f.dir]}

\* No push has been killed.
NotKilled == [dev |-> "none", local |-> {}, ldirs |-> {}, synced |-> {}, results |-> {}]

\* The files the deletion scan of a push by dev removes from a tree.
FilesToRemove(tree, discovered, dev) ==
    IF cfg[dev] THEN FilesToRemoveByName(tree, discovered)
    ELSE FilesToRemoveByDir(tree, dev)

\* The trees the write loop can leave, the sessions being visited in any order.
RECURSIVE WriteAll(_, _, _)
WriteAll(tree, S, dev) ==
    IF S = {} THEN {tree}
    ELSE UNION {WriteAll(IF compute_relative_path(session, cfg[dev]) = <<>> THEN tree
                         ELSE write_to_file(tree, session,
                                            compute_relative_path(session, cfg[dev]), dev),
                         S \ {session}, dev) : session \in S}

\* The synced trees one uninterrupted push by dev can produce from a tree.
FullPushResults(start, dev) ==
    LET discovered == discover_sessions(WalkOrder(local[dev]))
    IN {t \ FilesToRemove(t, discovered, dev) : t \in WriteAll(start, discovered, dev)}

\* Bounds of the push specification.
(***************************************************************************)
(* LAYOUT CHECK.                                                           *)
(* A directory name is a sequence of characters: "-" the separator of an   *)
(* encoded path, "." a dot, "a" any other character.                       *)
(***************************************************************************)
NameChars == {"-", ".", "a"}

\* dir_name.matches('-').count()
DashCount(name) == Cardinality({k \in 1..Len(name) : name[k] = "-"})

\* dir_name.starts_with(ch)
StartsWith(name, ch) == Len(name) >= 1 /\ name[1] = ch

\* The number of '-' from which a name counts as an encoded full path.
MinDashes == 3

NoCheck == [full_path_dirs |-> {}, project_name_dirs |-> {},
            is_consistent |-> TRUE, warning |-> FALSE]

\* The check without its last inconsistent case (full-path mode, project
\* names in the repository).
CheckWithoutFullPathCase(dirs, use_project_name_only) ==
    LET full_path_dirs == {n \in dirs : /\ ~StartsWith(n, ".")
                                        /\ StartsWith(n, "-")
                                        /\ DashCount(n) >= MinDashes}
        project_name_dirs == {n \in dirs : ~StartsWith(n, ".")} \ full_path_dirs
        bad == full_path_dirs # {} /\ (project_name_dirs # {} \/ use_project_name_only)
    IN [full_path_dirs |-> full_path_dirs, project_name_dirs |-> project_name_dirs,
        is_consistent |-> ~bad, warning |-> bad]

\* check_directory_structure_consistency; warning is TRUE for Some(..).
check_directory_structure_consistency(dirs, use_project_name_only) ==
    LET full_path_dirs == {n \in dirs : /\ ~StartsWith(n, ".")
                                        /\ StartsWith(n, "-")
                                        /\ DashCount(n) >= MinDashes}
        project_name_dirs == {n \in dirs : ~StartsWith(n, ".")} \ full_path_dirs
        has_full_path == full_path_dirs # {}
        has_project_name == project_name_dirs # {}
        bad == \/ has_full_path /\ has_project_name
               \/ use_project_name_only /\ has_full_path /\ ~has_project_name
               \/ ~use_project_name_only /\ has_project_name /\ ~has_full_path
    IN [full_path_dirs |-> full_path_dirs, project_name_dirs |-> project_name_dirs,
        is_consistent |-> ~bad, warning |-> bad]

\* Option::None of repo.current_commit_hash().ok()
NoCommit == 0

MaxEdits == 2
MaxPushes == 2

PushIdle ==
    /\ local = [d \in Devices |-> {}]
    /\ ldirs = [d \in Devices |-> {}]
    /\ synced = {}
    /\ pc = "idle"
    /\ pusher = "none"
    /\ sessions = {}
    /\ todo = {}
    /\ existing = {}
    /\ counts = ZeroCounts
    /\ removed = {}
    /\ lastPush = "none"
    /\ dirty = [d \in Devices |-> FALSE]
    /\ isRepeat = FALSE
    /\ everNames = [d \in Devices |-> {}]
    /\ edits = 0
    /\ pushes = 0
    /\ touched = {}
    /\ classified = {}
    /\ failures = {}
    /\ killed = NotKilled
    /\ interactive = FALSE
    /\ prompts = {}
    /\ confirmed = FALSE
    /\ writes = 0
    /\ atStart = [synced |-> {}, commits |-> 0, history |-> <<>>]
    /\ outcome = "none"
    /\ headTree = {}
    /\ commits = 0
    /\ remote = 0
    /\ commit_before_push = NoCommit
    /\ history = <<>>

\* Nothing has been written or pushed yet; each device has its configuration.
PushInputs == PushIdle /\ cfg \in [Devices -> BOOLEAN]

PushOff == PushIdle /\ cfg = [d \in Devices |-> TRUE]

\* The assistant creates or rewrites a transcript in a project directory.
WriteLocalFile(dev, d, n, id, c, hasCwd) ==
    /\ pc = "idle"
    /\ edits < MaxEdits
    /\ local' = [local EXCEPT ![dev] =
          {f \in @ : ~(f.dir = d /\ f.name = n)} \cup
          {[dir |-> d, name |-> n, kind |-> "session", session_id |-> id,
            message_count |-> c.message_count, content_hash |-> c.content_hash,
            project_name |-> IF hasCwd THEN DirProject(d) ELSE NoProject,
            origin |-> dev]}]
    /\ ldirs' = [ldirs EXCEPT ![dev] = @ \cup {d}]
    /\ everNames' = [everNames EXCEPT ![dev] = @ \cup {n}]
    /\ dirty' = [dirty EXCEPT ![dev] = TRUE]
    /\ edits' = edits + 1
    /\ UNCHANGED <<synced, cfg, pc, pusher, sessions, todo, existing, counts,
                   removed, lastPush, isRepeat, pushes, runVars, vcsVars>>
    /\ UNCHANGED <<touched, classified, faultVars, mergeVars, discVars, auxVars>>

\* The user deletes one transcript; its project directory stays.
DeleteLocalFile(dev, f) ==
    /\ pc = "idle"
    /\ edits < MaxEdits
    /\ f \in local[dev]
    /\ local' = [local EXCEPT ![dev] = @ \ {f}]
    /\ dirty' = [dirty EXCEPT ![dev] = TRUE]
    /\ edits' = edits + 1
    /\ UNCHANGED <<ldirs, synced, cfg, pc, pusher, sessions, todo, existing, counts,
                   removed, lastPush, isRepeat, everNames, pushes, runVars, vcsVars>>
    /\ UNCHANGED <<touched, classified, faultVars, mergeVars, discVars, auxVars>>

\* The user removes a project directory with the transcripts in it.
RemoveLocalDir(dev, d) ==
    /\ pc = "idle"
    /\ edits < MaxEdits
    /\ d \in ldirs[dev]
    /\ local' = [local EXCEPT ![dev] = {f \in @ : f.dir # d}]
    /\ ldirs' = [ldirs EXCEPT ![dev] = @ \ {d}]
    /\ dirty' = [dirty EXCEPT ![dev] = TRUE]
    /\ edits' = edits + 1
    /\ UNCHANGED <<synced, cfg, pc, pusher, sessions, todo, existing, counts,
                   removed, lastPush, isRepeat, everNames, pushes, runVars, vcsVars>>
    /\ UNCHANGED <<touched, classified, faultVars, mergeVars, discVars, auxVars>>

\* The characters of a directory name of the model, as the layout check
\* reads them.
DirChars(d) ==
    CASE d = "-a-myapp" -> <<"-", "a", "-", "a">>
      [] d = "-b-myapp" -> <<"-", "a", "-", "a", "a">>
      [] d = "-a-other" -> <<"-", "a", "-", "a", "a", "a">>
      [] d = "myapp"    -> <<"a">>
      [] d = "other"    -> <<"a", "a">>

\* The top-level directories of a tree.
TopDirs(tree) == {DirChars(f.dir) : f \in tree}

\* A tree as the repository stores it (who wrote a file is not stored).
Stored(tree) == {[f EXCEPT !.origin = "any"] : f \in tree}

\* repo.has_changes() after repo.stage_all()
has_changes == Stored(synced) # headTree

\* push_history returns Ok(()).
Return(how) ==
    /\ pc' = "idle"
    /\ outcome' = how

\* push_history up to local discovery: the layout check, its prompt, and
\* discover_sessions on the local tree.
PushStart(dev, inter, proceed) ==
    /\ pc = "idle"
    /\ pushes < MaxPushes
    /\ pushes' = pushes + 1
    /\ pusher' = dev
    /\ interactive' = inter
    /\ atStart' = [synced |-> synced, commits |-> commits, history |-> history]
    /\ confirmed' = FALSE
    /\ writes' = 0
    /\ touched' = {}
    /\ classified' = {}
    /\ failures' = {}
    /\ UNCHANGED killed
    /\ counts' = ZeroCounts
    /\ removed' = {}
    /\ existing' = {}
    /\ LET structure_check ==
             check_directory_structure_consistency(TopDirs(synced), cfg[dev])
           asked == ~structure_check.is_consistent /\ structure_check.warning /\ inter
       IN /\ prompts' = IF asked THEN {"layout"} ELSE {}
          /\ IF asked /\ ~proceed
             THEN /\ Return("declined_layout")
                  /\ UNCHANGED <<sessions, todo, isRepeat>>
             ELSE /\ sessions' = discover_sessions(WalkOrder(local[dev]))
                  /\ todo' = discover_sessions(WalkOrder(local[dev]))
                  /\ isRepeat' = (lastPush = dev /\ ~dirty[dev])
                  /\ pc' = "discovered"
                  /\ outcome' = "running"
    /\ UNCHANGED <<local, ldirs, synced, cfg, lastPush, dirty, everNames, edits>>
    /\ UNCHANGED vcsVars
    /\ UNCHANGED <<mergeVars, discVars, auxVars>>

\* create_dir_all and discover_sessions on the sync repository.
PushDiscoverSynced ==
    /\ pc = "discovered"
    /\ existing' = discover_sessions(WalkOrder(synced))
    /\ pc' = "writing"
    /\ UNCHANGED <<local, ldirs, synced, cfg, pusher, sessions, todo, counts,
                   removed, lastPush, dirty, isRepeat, everNames, edits, pushes>>
    /\ UNCHANGED <<runVars, vcsVars>>
    /\ UNCHANGED <<touched, classified, faultVars, mergeVars, discVars, auxVars>>

\* One iteration of the loop over sessions (HashMap order: any order).
PushSession(session) ==
    /\ pc = "writing"
    /\ session \in todo
    /\ todo' = todo \ {session}
    /\ LET relative_path == compute_relative_path(session, cfg[pusher])
           operation == Operation(session, existing)
       IN IF relative_path = <<>>
          THEN /\ counts' = [counts EXCEPT !.skipped = @ + 1]
               /\ UNCHANGED <<synced, writes, touched, classified>>
          ELSE /\ classified' = classified \cup
                    {[session |-> session, operation |-> operation]}
               /\ counts' = CountOperation(counts, operation)
               /\ touched' = touched \cup {dest_root(session, cfg[pusher])}
               /\ IF dest_root(session, cfg[pusher]) = "synced"
                  THEN synced' = write_to_file(synced, session, relative_path, pusher)
                  ELSE UNCHANGED synced
               /\ writes' = writes + 1
    /\ UNCHANGED <<local, ldirs, cfg, pc, pusher, sessions, existing, removed,
                   lastPush, dirty, isRepeat, everNames, edits, pushes>>
    /\ UNCHANGED <<interactive, prompts, confirmed, atStart, outcome>>
    /\ UNCHANGED vcsVars
    /\ UNCHANGED <<faultVars, mergeVars, discVars, auxVars>>

\* An iteration whose session.write_to_file(&dest_path)? fails: the operation
\* has been counted, nothing is written and push_history returns the error.
PushSessionFails(session) ==
    /\ pc = "writing"
    /\ session \in todo
    /\ compute_relative_path(session, cfg[pusher]) # <<>>
    /\ todo' = todo \ {session}
    /\ LET operation == Operation(session, existing)
       IN /\ classified' = classified \cup
               {[session |-> session, operation |-> operation]}
          /\ counts' = CountOperation(counts, operation)
    /\ failures' = failures \cup {"write"}
    /\ UNCHANGED killed
    /\ Return("error")
    /\ lastPush' = "none"
    /\ UNCHANGED <<local, ldirs, synced, cfg, pusher, sessions, existing, removed,
                   dirty, isRepeat, everNames, edits, pushes, touched>>
    /\ UNCHANGED <<interactive, prompts, confirmed, writes, atStart>>
    /\ UNCHANGED vcsVars
    /\ UNCHANGED <<mergeVars, discVars, auxVars>>

\* The process is killed at some point from the first session write onward;
\* in the deletion scan the files in part have been removed by then.
Kill(part) ==
    /\ \/ pc = "writing" /\ writes > 0 /\ part = {}
       \/ pc = "deleting" /\ part \subseteq FilesToRemove(synced, sessions, pusher)
       \/ pc \in {"committing", "commit", "recording"} /\ part = {}
    /\ synced' = synced \ part
    /\ killed' = [dev |-> pusher, local |-> local[pusher], ldirs |-> ldirs[pusher],
                  synced |-> synced \ part,
                  results |-> FullPushResults(atStart.synced, pusher)]
    /\ pc' = "idle"
    /\ outcome' = "killed"
    /\ lastPush' = "none"
    /\ UNCHANGED <<local, ldirs, cfg, pusher, sessions, todo, existing, counts,
                   removed, dirty, isRepeat, everNames, edits, pushes, touched,
                   classified, failures>>
    /\ UNCHANGED <<interactive, prompts, confirmed, writes, atStart>>
    /\ UNCHANGED vcsVars
    /\ UNCHANGED <<mergeVars, discVars, auxVars>>

\* The summary after the loop and, in interactive mode, the confirmation.
PushSummary(confirm) ==
    /\ pc = "writing"
    /\ todo = {}
    /\ prompts' = IF interactive THEN prompts \cup {"diff"} ELSE prompts
    /\ IF interactive /\ ~confirm
       THEN /\ Return("declined_diff")
            /\ lastPush' = "none"
            /\ UNCHANGED confirmed
       ELSE /\ pc' = "deleting"
            /\ confirmed' = interactive
            /\ UNCHANGED <<outcome, lastPush>>
    /\ UNCHANGED <<local, ldirs, synced, cfg, pusher, sessions, todo, existing,
                   counts, removed, dirty, isRepeat, everNames, edits, pushes>>
    /\ UNCHANGED <<interactive, writes, atStart>>
    /\ UNCHANGED vcsVars
    /\ UNCHANGED <<touched, classified, faultVars, mergeVars, discVars, auxVars>>

\* REMOVE LOCALLY DELETED SESSIONS FROM SYNC REPO; remove_file fails for the
\* files in stuck, which is logged and leaves the file in place.
PushDelete(stuck) ==
    /\ pc = "deleting"
    /\ LET scan == IF cfg[pusher]
                   THEN FilesToRemoveByName(synced, sessions)
                   ELSE FilesToRemoveByDir(synced, pusher)
           gone == scan \ stuck
       IN /\ stuck \subseteq scan
          /\ synced' = synced \ gone
          /\ removed' = gone
          /\ touched' = IF gone = {} THEN touched ELSE touched \cup {"synced"}
          /\ failures' = IF stuck = {} THEN failures ELSE failures \cup {"remove"}
          /\ UNCHANGED killed
          /\ counts' = [counts EXCEPT !.deleted = Cardinality(gone)]
    /\ pc' = "committing"
    /\ UNCHANGED <<local, ldirs, cfg, pusher, sessions, todo, existing, lastPush,
                   dirty, isRepeat, everNames, edits, pushes>>
    /\ UNCHANGED <<runVars, vcsVars>>
    /\ UNCHANGED <<classified, mergeVars, discVars, auxVars>>

\* repo.current_commit_hash().ok(): the current revision, None without one.
current_commit_hash == IF commits = 0 THEN NoCommit ELSE commits

\* A push_history that commits whether or not anything is staged.
StageBranchAlwaysCommit == "commit"

\* if has_changes { commit, push, record } else { "No changes to commit" }
StageBranch == IF has_changes THEN "commit" ELSE "return"

\* stage_all, has_changes and, with changes, current_commit_hash; without
\* changes push_history returns.
PushStage ==
    /\ pc = "committing"
    /\ IF StageBranch = "commit"
       THEN /\ commit_before_push' = current_commit_hash
            /\ pc' = "commit"
            /\ UNCHANGED <<outcome, lastPush, dirty>>
       ELSE /\ Return("ok")
            /\ lastPush' = pusher
            /\ dirty' = [dirty EXCEPT ![pusher] = FALSE]
            /\ UNCHANGED commit_before_push
    /\ UNCHANGED <<local, ldirs, synced, cfg, pusher, sessions, todo, existing,
                   counts, removed, isRepeat, everNames, edits, pushes>>
    /\ UNCHANGED <<interactive, prompts, confirmed, writes, atStart>>
    /\ UNCHANGED <<headTree, commits, remote, history>>
    /\ UNCHANGED <<touched, classified, faultVars, mergeVars, discVars, auxVars>>

\* repo.commit(message) and repo.push("origin", branch); pushed says that a
\* remote is configured, the push to it was requested and it succeeded.
PushCommit(pushed) ==
    /\ pc = "commit"
    /\ commits' = commits + 1
    /\ headTree' = Stored(synced)
    /\ remote' = IF pushed THEN commits + 1 ELSE remote
    /\ pc' = "recording"
    /\ UNCHANGED <<local, ldirs, synced, cfg, pusher, sessions, todo, existing,
                   counts, removed, lastPush, dirty, isRepeat, everNames, edits,
                   pushes>>
    /\ UNCHANGED runVars
    /\ UNCHANGED <<commit_before_push, history>>
    /\ UNCHANGED <<touched, classified, faultVars, mergeVars, discVars, auxVars>>

\* A record that stores the revision current when the record is made.
OperationRecordHashAfterCommit ==
    [operation_type |-> "Push", commit_hash |-> commits, recorded_at |-> commits]

\* OperationRecord::new and operation_record.commit_hash = commit_before_push;
\* recorded_at is the number of commits when the record is made.
operation_record ==
    [operation_type |-> "Push", commit_hash |-> commit_before_push,
     recorded_at |-> commits]

\* CREATE AND SAVE OPERATION RECORD; push_history returns.
PushRecord ==
    /\ pc = "recording"
    /\ history' = Append(history, operation_record)
    /\ Return("ok")
    /\ lastPush' = pusher
    /\ dirty' = [dirty EXCEPT ![pusher] = FALSE]
    /\ UNCHANGED <<local, ldirs, synced, cfg, pusher, sessions, todo, existing,
                   counts, removed, isRepeat, everNames, edits, pushes>>
    /\ UNCHANGED <<interactive, prompts, confirmed, writes, atStart>>
    /\ UNCHANGED <<headTree, commits, remote, commit_before_push>>
    /\ UNCHANGED <<touched, classified, faultVars, mergeVars, discVars, auxVars>>

---------------------------------------------------------------------------
(***************************************************************************)
(* FILTER CONFIGURATION.                                                   *)
(* A FilterConfig is reduced to the fields update_config can reject on or  *)
(* validate reads: enable_lfs, scm_backend, sync_subdirectory.  An absent  *)
(* argument (Option::None) is "None".                                      *)
(***************************************************************************)
\* scm_backend as a configuration file may spell it.
BackendStrings == {"git", "Git", "mercurial", "hg"}

\* --enable-lfs as the command line may give it.
LfsArgs == {"None", "true", "false"}

\* --scm-backend as the command line may give it.
BackendArgs == {"None", "git", "Git", "mercurial", "svn"}

\* --sync-subdirectory: a name, or a string that trims to nothing.
SubdirArgs == {"None", "projects", "blank"}

\* str::to_lowercase on the backend names that occur.
BackendLower(b) == IF b = "Git" THEN "git" ELSE b

FilterConfigs ==
    [enable_lfs : BOOLEAN, scm_backend : BackendStrings,
     sync_subdirectory : {"projects"}]

\* A validation that accepts every configuration.
ValidateNothing(config) == "ok"

\* FilterConfig::validate
validate(config) ==
    IF config.enable_lfs /\ BackendLower(config.scm_backend) # "git"
    THEN "err"
    ELSE "ok"

NoArgs == [enable_lfs |-> "None", scm_backend |-> "None", sync_subdirectory |-> "None"]

\* update_config up to the validation: <<result, config>>.
ApplyArgs(config, args) ==
    LET c1 == IF args.enable_lfs # "None"
              THEN [config EXCEPT !.enable_lfs = (args.enable_lfs = "true")]
              ELSE config
        backend_lower == BackendLower(args.scm_backend)
    IN IF args.scm_backend # "None" /\ backend_lower \notin {"git", "mercurial", "hg"}
       THEN <<"err", c1>>
       ELSE LET c2 == IF args.scm_backend # "None"
                      THEN [c1 EXCEPT !.scm_backend = backend_lower]
                      ELSE c1
            IN IF args.sync_subdirectory = "blank"
               THEN <<"err", c2>>
               ELSE <<"ok", c2>>

MaxCalls == 2

ConfIdle ==
    /\ persisted = [enable_lfs |-> FALSE, scm_backend |-> "git",
                    sync_subdirectory |-> "projects"]
    /\ prior = persisted
    /\ cargs = NoArgs
    /\ cresult = "none"
    /\ calls = 0

\* A configuration file that passes validate(), before any call.
ConfInputs ==
    /\ persisted \in {c \in FilterConfigs : validate(c) = "ok"}
    /\ prior = persisted
    /\ cargs = NoArgs
    /\ cresult = "none"
    /\ calls = 0

\* update_config: load, apply the arguments, validate, save.
UpdateConfig(args) ==
    /\ calls < MaxCalls
    /\ LET applied == ApplyArgs(persisted, args)
           config == applied[2]
       IN IF applied[1] = "ok" /\ validate(config) = "ok"
          THEN /\ persisted' = config
               /\ cresult' = "ok"
          ELSE /\ persisted' = persisted
               /\ cresult' = "err"
    /\ prior' = persisted
    /\ cargs' = args
    /\ calls' = calls + 1
    /\ UNCHANGED <<mergeVars, discVars, pushVars, layVars, applyVars, memVars, lookupVars>>

\* The longest directory name the layout inputs use.
MaxNameLen == 4

\* The names read_dir can yield: it never lists "." and "..".
DirNames ==
    UNION {[1..k -> NameChars] : k \in 1..MaxNameLen} \ {<<".">>, <<".", ".">>}

LayIdle ==
    /\ lstage = "off"
    /\ tops = {}
    /\ lmode = TRUE
    /\ verdict = NoCheck

\* A synced tree of at most two top-level directories, and a mode.
LayInputs ==
    /\ lstage = "input"
    /\ \E a, b \in DirNames : tops \in {{}, {a}, {a, b}}
    /\ lmode \in BOOLEAN
    /\ verdict = NoCheck

CheckLayout ==
    /\ lstage = "input"
    /\ verdict' = check_directory_structure_consistency(tops, lmode)
    /\ lstage' = "checked"
    /\ UNCHANGED <<tops, lmode>>
    /\ UNCHANGED <<mergeVars, discVars, pushVars, confVars, applyVars, memVars, lookupVars>>

(***************************************************************************)
(* AUTO-APPLY OF CLAUDE.md.                                                *)
(* The configuration directory of the sync repository holds one directory  *)
(* per device with its .sync-info.json and, possibly, its CLAUDE.md.       *)
(***************************************************************************)
ApplyDevices == {"cur", "p1", "p2"}

\* settings.get_device_name()
current_device == "cur"

\* Platform::current()
current_platform == "Linux"

\* A .sync-info.json that is missing or does not parse.
NoRecord == 0

\* The latest lastSync a record may hold.
MaxTime == 2

Times == 1..MaxTime

\* The CLAUDE.md documents of the model.
ApplyDocs == {<<>>, <<"a">>, <<"a", "nl", "open:linux", "t", "end", "nl">>,
              <<"open:macos", "a", "end">>}

NoLatest == [name |-> "none", time |-> NoRecord]

\* find_latest_device_config_with_time: the loop over read_dir, from entry k.
RECURSIVE LatestFrom(_, _, _, _)
LatestFrom(order, info, k, latest) ==
    IF k > Len(order) THEN latest
    ELSE LET device_name == order[k]
         IN IF device_name = current_device \/ info[device_name] = NoRecord
            THEN LatestFrom(order, info, k + 1, latest)
            ELSE IF latest.name = "none" \/ info[device_name] > latest.time
                 THEN LatestFrom(order, info, k + 1,
                                 [name |-> device_name, time |-> info[device_name]])
                 ELSE LatestFrom(order, info, k + 1, latest)

find_latest_device_config_with_time(order, info) ==
    LatestFrom(order, info, 1, NoLatest)

\* get_device_sync_time
get_device_sync_time(info, device) == info[device]

\* A test that lets a peer record of the same time through.
NotNewerStrict(latest_time, current_time) == latest_time < current_time

\* if latest_time <= current_time { return Ok(()) }
NotNewer(latest_time, current_time) == latest_time <= current_time

\* The device auto_apply_claude_md reads CLAUDE.md from, "none" when it
\* returns before reading one.
ApplySource ==
    LET latest == find_latest_device_config_with_time(read_order, sync_info)
        current_time == get_device_sync_time(sync_info, current_device)
    IN IF ~auto_enabled THEN "none"
       ELSE IF latest.name = "none" THEN "none"
       ELSE IF current_time # NoRecord /\ NotNewer(latest.time, current_time)
            THEN "none"
       ELSE IF ~peer_md[latest.name].exists THEN "none"
       ELSE latest.name

\* The content auto_apply_claude_md leaves in the local CLAUDE.md.
ApplyContent(source_content, target_content) ==
    IF has_platform_blocks(source_content) \/ has_platform_blocks(target_content)
    THEN merge_claude_md(source_content, target_content, current_platform)
    ELSE source_content

ApplyIdle ==
    /\ astage = "off"
    /\ auto_enabled = FALSE
    /\ read_order = <<>>
    /\ sync_info = [d \in ApplyDevices |-> NoRecord]
    /\ peer_md = [d \in ApplyDevices |-> [exists |-> FALSE, content |-> <<>>]]
    /\ local_md = <<>>
    /\ local_was = <<>>
    /\ applied_from = "none"

ApplyInputs ==
    /\ astage = "input"
    /\ auto_enabled \in BOOLEAN
    /\ read_order \in {o \in [1..Cardinality(ApplyDevices) -> ApplyDevices] :
                          \A i, j \in DOMAIN o : o[i] = o[j] => i = j}
    /\ sync_info \in [ApplyDevices -> {NoRecord} \cup Times]
    /\ peer_md \in [ApplyDevices ->
                      {[exists |-> FALSE, content |-> <<>>]} \cup
                      {[exists |-> TRUE, content |-> c] : c \in ApplyDocs}]
    /\ peer_md[current_device] = [exists |-> FALSE, content |-> <<>>]
    /\ local_md \in ApplyDocs
    /\ local_was = local_md
    /\ applied_from = "none"

AutoApplyClaudeMd ==
    /\ astage = "input"
    /\ astage' = "done"
    /\ applied_from' = ApplySource
    /\ local_md' = IF ApplySource = "none" THEN local_md
                   ELSE ApplyContent(peer_md[ApplySource].content, local_md)
    /\ UNCHANGED <<auto_enabled, read_order, sync_info, peer_md, local_was>>
    /\ UNCHANGED <<mergeVars, discVars, pushVars, confVars, layVars, memVars, lookupVars>>

(***************************************************************************)
(* MEMORY SYNC OF A PUSH.                                                  *)
(* One device with two project directories for the same project name; each *)
(* holds at most one transcript and may hold a memory directory.           *)
(***************************************************************************)
MemDirs == DeviceDirs("A")

MemNames == {"m1", "m2"}

SyncProjects == MemDirs \cup {DirProject(d) : d \in MemDirs} \cup {"other"}

NoMemory == [exists |-> FALSE, files |-> {}]

\* The transcripts a local project directory may hold.
MemFiles(d) ==
    {[dir |-> d, name |-> "x.jsonl", kind |-> "session", session_id |-> id,
      message_count |-> c.message_count, content_hash |-> c.content_hash,
      project_name |-> pn, origin |-> "A"] :
        id \in SessionIds, c \in Contents, pn \in {DirProject(d), NoProject}}

\* project_dir_to_sync: the local project directories of the sessions that
\* have a relative path, each with the synced project directory of that path.
project_dir_to_sync(discovered, use_project_name_only) ==
    {<<session.dir, compute_relative_path(session, use_project_name_only)[1]>> :
        session \in {t \in discovered :
                        compute_relative_path(t, use_project_name_only) # <<>>}}

\* local_memory_by_sync: for each synced project some mapped local directory
\* with a memory directory leads to, the file names of those directories.
local_memory_by_sync(mapping, memory) ==
    [sync_project \in {m[2] : m \in {k \in mapping : memory[k[1]].exists}} |->
        UNION {memory[m[1]].files :
                 m \in {k \in mapping : k[2] = sync_project /\ memory[k[1]].exists}}]

MemIdle ==
    /\ mem_stage = "off"
    /\ mem_mode = FALSE
    /\ mem_tree = {}
    /\ mem_local = [d \in MemDirs |-> NoMemory]
    /\ mem_synced = [p \in SyncProjects |-> {}]
    /\ mem_removed = {}

MemInputs ==
    /\ mem_stage = "input"
    /\ mem_mode \in BOOLEAN
    /\ mem_tree \in {T \in SUBSET (UNION {MemFiles(d) : d \in MemDirs}) :
                        \A f, g \in T : f.dir = g.dir => f = g}
    /\ mem_local \in [MemDirs -> {NoMemory} \cup
                         {[exists |-> TRUE, files |-> F] : F \in SUBSET MemNames}]
    /\ mem_synced \in [SyncProjects -> {{}, {"m1"}}]
    /\ mem_removed = {}

\* SYNC AUTO MEMORY DIRECTORIES: the copy loop, then the removal loop.
MemorySync ==
    /\ mem_stage = "input"
    /\ mem_stage' = "synced"
    /\ LET discovered == discover_sessions(WalkOrder(mem_tree))
           by_sync == local_memory_by_sync(
                          project_dir_to_sync(discovered, mem_mode), mem_local)
       IN /\ mem_synced' = [p \in SyncProjects |->
                               IF p \in DOMAIN by_sync THEN by_sync[p]
                               ELSE mem_synced[p]]
          /\ mem_removed' = {<<p, n>> \in SyncProjects \X MemNames :
                                /\ p \in DOMAIN by_sync
                                /\ n \in mem_synced[p]
                                /\ n \notin by_sync[p]}
    /\ UNCHANGED <<mem_mode, mem_tree, mem_local>>
    /\ UNCHANGED <<mergeVars, discVars, pushVars, confVars, layVars, applyVars, lookupVars>>

(***************************************************************************)
(* LOOKUP OF A LOCAL PROJECT BY NAME.                                      *)
(* A directory name and a project name are sequences of characters; a      *)
(* directory holds a sequence of .jsonl files, each parsing or not and      *)
(* recording a project name or none (<<>>).                                *)
(***************************************************************************)
\* The last non-empty segment of encoded_path between dashes, from position k
\* backwards; seg is the segment collected so far.
RECURSIVE LastSegment(_, _, _)
LastSegment(encoded_path, k, seg) ==
    IF k = 0 THEN seg
    ELSE IF encoded_path[k] = "-"
         THEN IF seg # <<>> THEN seg ELSE LastSegment(encoded_path, k - 1, <<>>)
         ELSE LastSegment(encoded_path, k - 1, <<encoded_path[k]>> \o seg)

\* extract_project_name: rsplit('-').find(non-empty).unwrap_or(encoded_path)
extract_project_name(encoded_path) ==
    LET seg == LastSegment(encoded_path, Len(encoded_path), <<>>)
    IN IF seg = <<>> THEN encoded_path ELSE seg

LookupDirNames == {<<"a">>, <<"-", "a">>, <<"-", "b", "-", "a">>, <<"-", "b">>,
                   <<"-", "-">>}

LookupProjects == {<<"a">>, <<"b">>}

\* The most .jsonl files a directory of the lookup holds.
MaxDirFiles == 2

\* A .jsonl file as from_file and project_name() see it.
LookupFiles ==
    {[parsed |-> FALSE, project_name |-> <<>>], [parsed |-> TRUE, project_name |-> <<>>]}
      \cup {[parsed |-> TRUE, project_name |-> p] : p \in LookupProjects}

LookupDirs ==
    {[name |-> n, files |-> f] :
        n \in LookupDirNames, f \in SeqsUpTo(LookupFiles, MaxDirFiles)}

\* The inner loop of the second pass over the files of a directory, from
\* file k: TRUE when it returns the directory.
RECURSIVE DirHasRealName(_, _, _)
DirHasRealName(files, k, project) ==
    IF k > Len(files) THEN FALSE
    ELSE IF files[k].parsed /\ files[k].project_name # <<>>
         THEN files[k].project_name = project
         ELSE DirHasRealName(files, k + 1, project)

\* The second pass, from entry k: the index of the first directory whose
\* transcripts record the project name, 0 when there is none.
RECURSIVE SecondPass(_, _, _)
SecondPass(entries, k, project) ==
    IF k > Len(entries) THEN 0
    ELSE IF DirHasRealName(entries[k].files, 1, project) THEN k
         ELSE SecondPass(entries, k + 1, project)

\* find_local_project_by_name: the index of the directory returned, 0 for None.
find_local_project_by_name(entries, project) ==
    LET matches == {k \in 1..Len(entries) :
                      extract_project_name(entries[k].name) = project}
    IN IF Cardinality(matches) = 1
       THEN CHOOSE k \in matches : TRUE
       ELSE SecondPass(entries, 1, project)

LookupIdle ==
    /\ lk_stage = "off"
    /\ lk_entries = <<>>
    /\ lk_name = <<>>
    /\ lk_result = 0

LookupInputs ==
    /\ lk_stage = "input"
    /\ lk_entries \in {e \in SeqsUpTo(LookupDirs, 2) :
                          \A i, j \in DOMAIN e : e[i].name = e[j].name => i = j}
    /\ lk_name \in LookupProjects
    /\ lk_result = 0

FindLocalProjectByName ==
    /\ lk_stage = "input"
    /\ lk_stage' = "found"
    /\ lk_result' = find_local_project_by_name(lk_entries, lk_name)
    /\ UNCHANGED <<lk_entries, lk_name>>
    /\ UNCHANGED <<mergeVars, discVars, pushVars, confVars, layVars, applyVars, memVars>>

AuxIdle == ConfIdle /\ LayIdle /\ ApplyIdle /\ MemIdle /\ LookupIdle

InitLookup ==
    /\ LookupInputs
    /\ ConfIdle /\ LayIdle /\ ApplyIdle /\ MemIdle /\ MergeIdle /\ DiscIdle /\ PushOff

NextLookup == FindLocalProjectByName

SpecLookup == InitLookup /\ [][NextLookup]_vars

InitMemory ==
    MemInputs /\ LookupIdle /\ ConfIdle /\ LayIdle /\ ApplyIdle /\ MergeIdle /\ DiscIdle /\ PushOff

NextMemory == MemorySync

SpecMemory == InitMemory /\ [][NextMemory]_vars

InitApply == ApplyInputs /\ LookupIdle /\ ConfIdle /\ LayIdle /\ MemIdle /\ MergeIdle /\ DiscIdle /\ PushOff

NextApply == AutoApplyClaudeMd

SpecApply == InitApply /\ [][NextApply]_vars

InitLayout == LayInputs /\ LookupIdle /\ ConfIdle /\ ApplyIdle /\ MemIdle /\ MergeIdle /\ DiscIdle /\ PushOff

NextLayout == CheckLayout

SpecLayout == InitLayout /\ [][NextLayout]_vars

InitConfig == ConfInputs /\ LookupIdle /\ LayIdle /\ ApplyIdle /\ MemIdle /\ MergeIdle /\ DiscIdle /\ PushOff

NextConfig ==
    \E l \in LfsArgs, b \in BackendArgs, d \in SubdirArgs :
        UpdateConfig([enable_lfs |-> l, scm_backend |-> b, sync_subdirectory |-> d])

SpecConfig == InitConfig /\ [][NextConfig]_vars

InitMerge == MergeInputs /\ DiscIdle /\ PushOff /\ AuxIdle

NextMerge == MergeClaudeMd

SpecMerge == InitMerge /\ [][NextMerge]_vars

\* Platform::tag_name
tag_name(platform) ==
    CASE platform = "MacOS"   -> "macos"
      [] platform = "Windows" -> "windows"
      [] platform = "Linux"   -> "linux"

\* Documents that spell platform names in every alias and in mixed case.
AliasAlphabet == {"a", "end"} \cup OpenToks

AliasInputs ==
    /\ mstage = "input"
    /\ source \in SeqsUpTo(AliasAlphabet, MaxAliasLen)
    /\ \E tok \in OpenToks : target = <<tok, "t", "end">>
    /\ current \in Platforms
    /\ merged = <<>>

InitAlias == AliasInputs /\ DiscIdle /\ PushOff /\ AuxIdle

SpecAlias == InitAlias /\ [][NextMerge]_vars

InitDiscover == DiscInputs /\ MergeIdle /\ PushOff /\ AuxIdle

NextDiscover == DiscoverSessions

SpecDiscover == InitDiscover /\ [][NextDiscover]_vars

Init == PushInputs /\ MergeIdle /\ DiscIdle /\ AuxIdle

Next ==
    \/ \E dev \in Devices : \E d \in DeviceDirs(dev) :
          \E n \in FileNames, id \in SessionIds, c \in Contents, hasCwd \in BOOLEAN :
            WriteLocalFile(dev, d, n, id, c, hasCwd)
    \/ \E dev \in Devices : \E f \in local[dev] : DeleteLocalFile(dev, f)
    \/ \E dev \in Devices : \E d \in ldirs[dev] : RemoveLocalDir(dev, d)
    \/ \E dev \in Devices : \E inter, proceed \in BOOLEAN : PushStart(dev, inter, proceed)
    \/ PushDiscoverSynced
    \/ \E session \in todo : PushSession(session)
    \/ \E confirm \in BOOLEAN : PushSummary(confirm)
    \/ PushDelete({})
    \/ PushStage
    \/ \E pushed \in BOOLEAN : PushCommit(pushed)
    \/ PushRecord

Spec == Init /\ [][Next]_vars

\* Pushes in which a write or a removal may fail; the prompts play no part.
NextFault ==
    \/ \E dev \in Devices : \E d \in DeviceDirs(dev) :
          \E n \in FileNames, id \in SessionIds, c \in Contents, hasCwd \in BOOLEAN :
            WriteLocalFile(dev, d, n, id, c, hasCwd)
    \/ \E dev \in Devices : \E f \in local[dev] : DeleteLocalFile(dev, f)
    \/ \E dev \in Devices : \E d \in ldirs[dev] : RemoveLocalDir(dev, d)
    \/ \E dev \in Devices : PushStart(dev, FALSE, TRUE)
    \/ PushDiscoverSynced
    \/ \E session \in todo : PushSession(session)
    \/ \E session \in todo : PushSessionFails(session)
    \/ PushSummary(TRUE)
    \/ \E stuck \in SUBSET synced : PushDelete(stuck)
    \/ PushStage
    \/ \E pushed \in BOOLEAN : PushCommit(pushed)
    \/ PushRecord

SpecFault == Init /\ [][NextFault]_vars

\* The session files an earlier push may have left in the sync repository.
EarlierFiles ==
    {[dir |-> d, name |-> "x.jsonl", kind |-> "session", session_id |-> "S1",
      message_count |-> 1, content_hash |-> "h1", project_name |-> "myapp",
      origin |-> o] : d \in {"-a-myapp", "myapp"}, o \in Devices}

\* A repository that is empty or holds the commit of one earlier push.
InitRetry ==
    /\ MergeIdle /\ DiscIdle /\ AuxIdle
    /\ \E earlier \in {{}} \cup {{f} : f \in EarlierFiles} :
          /\ synced = earlier
          /\ headTree = Stored(earlier)
          /\ commits = IF earlier = {} THEN 0 ELSE 1
          /\ remote = commits
          /\ history = IF earlier = {} THEN <<>>
                       ELSE <<[operation_type |-> "Push", commit_hash |-> NoCommit,
                               recorded_at |-> 1]>>
          /\ atStart = [synced |-> {}, commits |-> 0, history |-> <<>>]
    /\ cfg \in [Devices -> BOOLEAN]
    /\ local = [d \in Devices |-> {}]
    /\ ldirs = [d \in Devices |-> {}]
    /\ pc = "idle"
    /\ pusher = "none"
    /\ sessions = {} /\ todo = {} /\ existing = {}
    /\ counts = ZeroCounts
    /\ removed = {}
    /\ lastPush = "none"
    /\ dirty = [d \in Devices |-> FALSE]
    /\ isRepeat = FALSE
    /\ everNames = [d \in Devices |-> {}]
    /\ edits = 0 /\ pushes = 0
    /\ touched = {} /\ classified = {} /\ failures = {} /\ killed = NotKilled
    /\ interactive = FALSE /\ prompts = {} /\ confirmed = FALSE /\ writes = 0
    /\ outcome = "none"
    /\ commit_before_push = NoCommit

\* Pushes of one device that may be killed; the prompts play no part.
NextRetry ==
    \/ \E d \in DeviceDirs("A") :
          \E n \in FileNames, id \in SessionIds, c \in Contents, hasCwd \in BOOLEAN :
            WriteLocalFile("A", d, n, id, c, hasCwd)
    \/ \E f \in local["A"] : DeleteLocalFile("A", f)
    \/ \E d \in ldirs["A"] : RemoveLocalDir("A", d)
    \/ PushStart("A", FALSE, TRUE)
    \/ PushDiscoverSynced
    \/ \E session \in todo : PushSession(session)
    \/ PushSummary(TRUE)
    \/ PushDelete({})
    \/ PushStage
    \/ \E pushed \in BOOLEAN : PushCommit(pushed)
    \/ PushRecord
    \/ \E part \in SUBSET synced : Kill(part)

SpecRetry == InitRetry /\ [][NextRetry]_vars

---------------------------------------------------------------------------
(***************************************************************************)
(* Reading of a document used to state the merge claims, written without   *)
(* the scanning operators above: a tagged block is an opening tag of a     *)
(* known platform name, the first end tag after it, and everything in      *)
(* between, where the opening tag is not itself inside an earlier block.   *)
(***************************************************************************)
IsPlatformTag(tok) == tok \in OpenToks /\ FromTagName(OpenName(tok)) # "None"

NoEndBetween(doc, i, j) == \A m \in (i+1)..(j-1) : doc[m] # "end"

BlockSpans(doc) ==
    {sp \in (1..Len(doc)) \X (1..Len(doc)) :
        /\ sp[1] < sp[2]
        /\ IsPlatformTag(doc[sp[1]])
        /\ doc[sp[2]] = "end"
        /\ NoEndBetween(doc, sp[1], sp[2])
        /\ ~ \E k \in 1..(sp[1]-1) :
               IsPlatformTag(doc[k]) /\ NoEndBetween(doc, k, sp[1])}

BlockPlatform(doc, sp) == FromTagName(OpenName(doc[sp[1]]))

InSomeBlock(doc, p) == \E sp \in BlockSpans(doc) : sp[1] <= p /\ p <= sp[2]

\* The lines of a document, as <<first, last>> index pairs (last = first - 1
\* for an empty line); the text after the final newline is a line only when
\* it is not empty.
RECURSIVE LineSpans(_, _)
LineSpans(doc, from) ==
    IF from > Len(doc) THEN <<>>
    ELSE LET nls == {i \in from..Len(doc) : doc[i] = "nl"}
         IN IF nls = {} THEN << <<from, Len(doc)>> >>
            ELSE << <<from, MinOf(nls) - 1>> >> \o LineSpans(doc, MinOf(nls) + 1)

LineText(doc, ln) == SubSeq(doc, ln[1], ln[2])

\* A line lies outside every tagged block when none of its positions, its
\* terminating newline included, is inside a block.
LineOutsideBlocks(doc, ln) ==
    \A p \in ln[1]..(IF ln[2] + 1 <= Len(doc) THEN ln[2] + 1 ELSE ln[2]) :
        ~ InSomeBlock(doc, p)

AllLines(doc) ==
    LET ls == LineSpans(doc, 1) IN [k \in 1..Len(ls) |-> LineText(doc, ls[k])]

OutsideLines(doc) ==
    LET ls  == LineSpans(doc, 1)
        out == SelectSeq(ls, LAMBDA ln : LineOutsideBlocks(doc, ln))
    IN [k \in 1..Len(out) |-> LineText(doc, out[k])]

RECURSIVE StripTrailingBlanks(_)
StripTrailingBlanks(line) ==
    IF line # <<>> /\ line[Len(line)] = "sp"
    THEN StripTrailingBlanks(SubSeq(line, 1, Len(line) - 1))
    ELSE line

\* The lines of ls that are not blank, each without its trailing blanks.
ContentLines(ls) ==
    LET stripped == [k \in 1..Len(ls) |-> StripTrailingBlanks(ls[k])]
    IN SelectSeq(stripped, LAMBDA l : l # <<>>)

RECURSIVE IsSubsequence(_, _)
IsSubsequence(xs, ys) ==
    IF xs = <<>> THEN TRUE
    ELSE IF ys = <<>> THEN FALSE
    ELSE IF Head(xs) = Head(ys) THEN IsSubsequence(Tail(xs), Tail(ys))
    ELSE IsSubsequence(xs, Tail(ys))

\* The lexemes of doc outside every block that are not whitespace, in order.
SharedText(doc) ==
    LET idx == SelectSeq([k \in 1..Len(doc) |-> k],
                         LAMBDA p : ~ InSomeBlock(doc, p) /\ doc[p] \notin Whitespace)
    IN [k \in 1..Len(idx) |-> doc[idx[k]]]

NonBlankLexemes(doc) == SelectSeq(doc, LAMBDA tok : tok \notin Whitespace)

\* The first block of the target for the current platform, <<0, 0>> if none.
TargetBlockSpan ==
    LET mine == {sp \in BlockSpans(target) : BlockPlatform(target, sp) = current}
    IN IF mine = {} THEN <<0, 0>>
       ELSE CHOOSE sp \in mine : \A o \in mine : sp[1] <= o[1]

\* C8: the merged document contains no tagged block for a platform other
\* than the current one.
C8_NoForeignBlock ==
    mstage = "merged" =>
        \A sp \in BlockSpans(merged) : BlockPlatform(merged, sp) = current

\* C9 (as stated): every line of the source outside any tagged block appears
\* in the merged document, in the same relative order.
C9_EveryLineKept ==
    mstage = "merged" => IsSubsequence(OutsideLines(source), AllLines(merged))

\* C9 (amended): every non-blank line of the source outside any tagged block
\* appears in the merged document, up to blanks at the end of the line, in
\* the same relative order.
C9_ContentLinesKept ==
    mstage = "merged" =>
        IsSubsequence(ContentLines(OutsideLines(source)),
                      ContentLines(AllLines(merged)))

C9_Witness ==
    /\ mstage = "merged"
    /\ BlockSpans(source) # {}
    /\ ContentLines(OutsideLines(source)) # <<>>
    /\ TargetBlockSpan[1] # 0

---------------------------------------------------------------------------
\* The entries of the walk that pass the filter and parse.
GoodEntries == {k \in 1..Len(walk) : walk[k].kind = "session"}

\* C4: discover_sessions returns exactly one session per distinct
\* session_id: no two returned sessions share a session_id, and every
\* session_id of a file that passes the filter and parses is returned.
C4_OnePerSessionId ==
    dstage = "found" =>
        /\ \A s1, s2 \in found : s1.session_id = s2.session_id => s1 = s2
        /\ \A k \in GoodEntries : \E s \in found : s.session_id = walk[k].session_id
        /\ \A s \in found : \E k \in GoodEntries : s = walk[k]

C4_Witness ==
    /\ dstage = "found"
    /\ \E j, k \in GoodEntries : j # k /\ walk[j].session_id = walk[k].session_id
    /\ \E j, k \in GoodEntries : walk[j].session_id # walk[k].session_id

\* C5: for every session_id the retained session is the first file in walk
\* order among those with the greatest message_count for that id.
C5_KeepsFirstLargest ==
    dstage = "found" =>
        \A s \in found :
            \A k \in GoodEntries :
                walk[k].session_id = s.session_id =>
                    \/ walk[k].message_count < s.message_count
                    \/ /\ walk[k].message_count = s.message_count
                       /\ s.file_path <= k

C5_Witness ==
    /\ dstage = "found"
    /\ \E s \in found : \E j, k \in GoodEntries :
          /\ j < s.file_path /\ s.file_path < k
          /\ walk[j].session_id = s.session_id
          /\ walk[k].session_id = s.session_id
          /\ walk[j].message_count < s.message_count
          /\ walk[k].message_count = s.message_count

---------------------------------------------------------------------------
(***************************************************************************)
(* Push claims.  They are read in the state right after the deletion scan  *)
(* of a push (pc = "committing"): the local tree is the one the push saw,  *)
(* the counters are final and removed holds what the scan removed.         *)
(***************************************************************************)
\* The local project directories of dev that correspond to a synced project
\* directory under dev's layout mode.
CorrespondingLocalDirs(dev, syncDir) ==
    IF cfg[dev]
    THEN {d \in ldirs[dev] : DirProject(d) = syncDir}
    ELSE {d \in ldirs[dev] : d = syncDir}

\* The names of the session files in those local directories.
LocalNamesFor(dev, syncDir) ==
    {f.name : f \in {g \in local[dev] : g.dir \in CorrespondingLocalDirs(dev, syncDir)}}

AfterDeletionScan == pc = "committing"

\* C1: a push that repeats the device's last completed push, with nothing
\* changed in between, adds, modifies and removes nothing and classifies
\* every pushed session as Unchanged.
C1_PushIdempotent ==
    (AfterDeletionScan /\ isRepeat) =>
        /\ counts.added = 0
        /\ counts.modified = 0
        /\ counts.deleted = 0
        /\ counts.unchanged = Cardinality(sessions) - counts.skipped

\* C2: a push never removes a synced file whose synced project directory
\* has no corresponding local project directory on the pushing device.
C2_DeletionScoped ==
    AfterDeletionScan =>
        \A f \in removed : CorrespondingLocalDirs(pusher, f.dir) # {}

\* A push ran its deletion scan after the device removed a project it had
\* pushed earlier: the synced files of that project have no local
\* counterpart and are still there.
C2_Witness ==
    /\ AfterDeletionScan
    /\ \E f \in synced :
          /\ f.origin = pusher
          /\ CorrespondingLocalDirs(pusher, f.dir) = {}
          /\ f.name \notin {g.name : g \in local[pusher]}

\* C3: a push never removes a synced file that the other device pushed and
\* whose name the pushing device's local tree never held.
C3_PeerSessionsKept ==
    AfterDeletionScan =>
        \A f \in removed : ~(f.origin # pusher /\ f.name \notin everNames[pusher])

\* C6: a push removes a synced file only if no session file of that name is
\* present in a local project directory corresponding to its directory.
C6_PresentLocallyKept ==
    AfterDeletionScan =>
        \A f \in removed : f.name \notin LocalNamesFor(pusher, f.dir)

\* C7: after the deletion scan no synced file is left whose project
\* directory exists locally and whose name matches no local session file of
\* that project, and deleted_from_repo counts the files removed.
C7_LocalDeletionsPropagated ==
    AfterDeletionScan =>
        /\ \A f \in synced :
              ~(/\ CorrespondingLocalDirs(pusher, f.dir) # {}
                /\ f.name \notin LocalNamesFor(pusher, f.dir))
        /\ counts.deleted = Cardinality(removed)

---------------------------------------------------------------------------
\* The opening tag that spells the same platform by its lower-case
\* canonical name.
CanonTok(tok) ==
    IF IsPlatformTag(tok)
    THEN LET name == tag_name(FromTagName(OpenName(tok)))
         IN CHOOSE t \in OpenToks : OpenName(t) = name
    ELSE tok

Canon(doc) == [k \in 1..Len(doc) |-> CanonTok(doc[k])]

\* C11: a block tagged with any alias of a platform in any letter case is
\* treated as the block tagged with the lower-case canonical name is, by
\* has_platform_blocks, by the stripping of merge_claude_md and by
\* extract_current_platform_block.
C11_AliasesAnyCase ==
    mstage = "merged" =>
        /\ has_platform_blocks(target) = has_platform_blocks(Canon(target))
        /\ has_platform_blocks(source) = has_platform_blocks(Canon(source))
        /\ Canon(extract_current_platform_block(target, current))
             = extract_current_platform_block(Canon(target), current)
        /\ Canon(merged) = merge_claude_md(Canon(source), Canon(target), current)

\* The same for the aliases written in lower case only.
LowerCaseOnly(doc) == \A k \in 1..Len(doc) : doc[k] # "open:MacOS"

C11_LowerCaseAliases ==
    (mstage = "merged" /\ LowerCaseOnly(source) /\ LowerCaseOnly(target)) =>
        /\ has_platform_blocks(target) = has_platform_blocks(Canon(target))
        /\ has_platform_blocks(source) = has_platform_blocks(Canon(source))
        /\ Canon(extract_current_platform_block(target, current))
             = extract_current_platform_block(Canon(target), current)
        /\ Canon(merged) = merge_claude_md(Canon(source), Canon(target), current)

---------------------------------------------------------------------------
\* The sessions the write loop of the running push has visited.
Visited == sessions \ todo

InPush == pc \in {"writing", "deleting"}

\* C12: in project-name-only mode a session with a project name gets a path
\* (never None) whose directory is the project name and whose file name is
\* the source file name, and that is where the loop has written it.
C12_LayoutRoundTrip ==
    (InPush /\ cfg[pusher]) =>
        \A s \in sessions :
            project_name(s) # NoProject =>
                /\ compute_relative_path(s, TRUE) # <<>>
                /\ compute_relative_path(s, TRUE) = <<project_name(s), s.name>>
                /\ s \in Visited =>
                     \E f \in synced : f.dir = project_name(s) /\ f.name = s.name

\* The loop has written a session whose project directory is not named as
\* its project is.
C12_Witness ==
    /\ pc = "deleting"
    /\ cfg[pusher]
    /\ \E s \in sessions :
          /\ project_name(s) # NoProject
          /\ s.dir # project_name(s)
          /\ \E f \in synced : f.dir = project_name(s) /\ f.name = s.name
                                 /\ f.session_id = s.session_id

NoCwd(S) == {s \in S : project_name(s) = NoProject}

\* C13: in project-name-only mode a session with no project name is never
\* written to the synced tree, is not classified, and adds exactly one to
\* the skipped count; in full-path mode every session has a path and none
\* is skipped.
C13_SkippedCounted ==
    /\ \A f \in synced : cfg[f.origin] => project_name(f) # NoProject
    /\ InPush =>
         /\ counts.skipped = IF cfg[pusher] THEN Cardinality(NoCwd(Visited)) ELSE 0
         /\ counts.added + counts.modified + counts.unchanged
              = Cardinality(Visited) - counts.skipped
         /\ ~cfg[pusher] => \A s \in sessions : compute_relative_path(s, FALSE) # <<>>

\* A project-name-only push has skipped one session and written another.
C13_Witness ==
    /\ pc = "deleting"
    /\ cfg[pusher]
    /\ counts.skipped = 1
    /\ counts.added = 1
    /\ Cardinality(sessions) = 2

---------------------------------------------------------------------------
\* C14: validate() fails whenever enable_lfs is set with a backend other
\* than git; the configuration file never holds enable_lfs with such a
\* backend, and a rejected update_config leaves the file as it was.
C14_LfsRequiresGit ==
    /\ \A c \in FilterConfigs :
          (c.enable_lfs /\ BackendLower(c.scm_backend) # "git") => validate(c) = "err"
    /\ ~(persisted.enable_lfs /\ BackendLower(persisted.scm_backend) # "git")
    /\ cresult = "err" => persisted = prior

\* An update_config call that asked for LFS on a mercurial configuration
\* was rejected, after an earlier call was saved.
C14_Witness ==
    /\ cresult = "err"
    /\ calls = 2
    /\ cargs.enable_lfs = "true"
    /\ cargs.scm_backend = "None"
    /\ cargs.sync_subdirectory = "None"
    /\ persisted.scm_backend = "mercurial"

---------------------------------------------------------------------------
\* The two shapes of a directory name: full-path-shaped when it begins with
\* the separator and holds at least three of them, project-name-shaped
\* otherwise.
FullPathShaped(n) == n[1] = "-" /\ DashCount(n) >= 3

ProjectNameShaped(n) == ~FullPathShaped(n)

Hidden(n) == n[1] = "."

\* The verdict the three cases give for a set of directory names.
Inconsistent(dirs, projectNameOnly) ==
    LET fp == \E n \in dirs : FullPathShaped(n)
        pn == \E n \in dirs : ProjectNameShaped(n)
    IN \/ fp /\ pn
       \/ projectNameOnly /\ fp
       \/ ~projectNameOnly /\ pn

\* C15 as stated: the verdict is inconsistent exactly in the three cases,
\* over every top-level directory, and a warning comes with it and only
\* with it.
C15_VerdictAllDirs ==
    lstage = "checked" =>
        /\ verdict.is_consistent = ~Inconsistent(tops, lmode)
        /\ verdict.warning = ~verdict.is_consistent

\* C15: the same over the top-level directories whose name does not begin
\* with a dot.
C15_VerdictVisibleDirs ==
    lstage = "checked" =>
        /\ verdict.is_consistent = ~Inconsistent({n \in tops : ~Hidden(n)}, lmode)
        /\ verdict.warning = ~verdict.is_consistent

\* The check ran in full-path mode on a tree that holds a project-name
\* directory and a hidden one, and reported it inconsistent with a warning.
C15_Witness ==
    /\ lstage = "checked"
    /\ ~lmode
    /\ \E n \in tops : Hidden(n)
    /\ \E n \in tops : ~Hidden(n) /\ ProjectNameShaped(n)
    /\ ~verdict.is_consistent
    /\ verdict.warning


\* C16: in interactive mode no session file is written to the synced tree
\* before the user has confirmed the diff summary, and a non-interactive push
\* shows no prompt.
C16_ConfirmBeforeWrite ==
    outcome = "running" =>
        /\ (interactive /\ writes > 0 => confirmed)
        /\ (~interactive => prompts = {})

\* The non-interactive half of C16: a push that is not interactive never
\* prompts.
C16_NonInteractiveNeverPrompts == ~interactive => prompts = {}


\* C17: when the user declines the layout prompt or the diff confirmation,
\* push_history returns Ok and the synced tree, the commits and the operation
\* history are as they were when the call began.
C17_DeclineIsNoOp ==
    pc = "idle" /\ outcome \in {"declined_layout", "declined_diff"} =>
        /\ Stored(synced) = Stored(atStart.synced)
        /\ commits = atStart.commits
        /\ history = atStart.history

\* What does hold of a declined push: the commits and the operation history
\* are untouched, and declining the layout prompt leaves the synced tree alone.
C17_DeclineKeepsHistories ==
    pc = "idle" /\ outcome \in {"declined_layout", "declined_diff"} =>
        /\ commits = atStart.commits
        /\ history = atStart.history
        /\ (outcome = "declined_layout" => synced = atStart.synced)

\* C18: every OperationRecord of a push stores the revision that was current
\* after staging and before the push's own commit, stores none exactly when
\* that commit is the repository's first, and is appended only after the commit.
C18_UndoPointPreCommit ==
    /\ \A i \in 1..Len(history) :
         /\ history[i].recorded_at >= 1
         /\ history[i].commit_hash =
              (IF history[i].recorded_at = 1 THEN NoCommit
               ELSE history[i].recorded_at - 1)
         /\ (history[i].commit_hash = NoCommit <=> history[i].recorded_at = 1)
    /\ (pc = "commit" => commit_before_push = current_commit_hash)
    /\ (pc \in {"committing", "commit"} => history = atStart.history)
    /\ (pc = "recording" => commits = atStart.commits + 1 /\ history = atStart.history)

C18_Witness ==
    /\ Len(history) = 2
    /\ history[1].commit_hash = NoCommit
    /\ history[2].commit_hash = 1
    /\ commits = 2

\* C19: when staging leaves no changes, push_history returns Ok without a
\* commit, a remote push or an operation record.
C19_NothingToCommit ==
    [][pc = "committing" /\ ~has_changes /\ pc' # pc =>
         /\ pc' = "idle"
         /\ outcome' = "ok"
         /\ UNCHANGED <<headTree, commits, remote, history>>]_vars

C19_Witness ==
    /\ pc = "idle"
    /\ outcome = "ok"
    /\ pushes = 2
    /\ writes > 0
    /\ atStart.commits = 1
    /\ commits = 1
    /\ Len(history) = 1

\* C20: within one push the local tree is discovered before the synced tree,
\* every session is classified before any session file is written, and every
\* classification is made against the synced tree as it was before the first
\* write.
C20_OrderingWithinPush ==
    outcome = "running" =>
        /\ (pc = "discovered" => writes = 0 /\ existing = {})
        /\ (writes > 0 => todo = {})
        /\ (pc = "writing" => existing = discover_sessions(WalkOrder(atStart.synced)))

\* What does hold of the order: local discovery comes first and the
\* classifications use the snapshot taken before the first write.
C20_ClassifiedAgainstSnapshot ==
    outcome = "running" =>
        /\ (pc = "discovered" => writes = 0 /\ existing = {})
        /\ (pc = "writing" => existing = discover_sessions(WalkOrder(atStart.synced)))


C22_FailuresNeverAbort ==
    pc = "idle" /\ failures # {} => outcome = "ok" /\ todo = {}

\* What does hold of C22: a removal that fails is skipped and the push goes on.
C22_RemoveFailuresSkipped ==
    /\ (pc = "idle" /\ failures = {"remove"} => outcome = "ok" /\ todo = {})
    /\ (pc = "committing" /\ failures = {"remove"} =>
          \E f \in synced : f \notin removed /\ Cardinality(removed) = counts.deleted)


\* The greatest lastSync recorded by a device other than the current one,
\* NoRecord when none has a record.
GreatestPeerTime ==
    LET T == {sync_info[d] : d \in ApplyDevices \ {current_device}} \ {NoRecord}
    IN IF T = {} THEN NoRecord ELSE CHOOSE t \in T : \A u \in T : u <= t

\* C23: auto_apply_claude_md takes CLAUDE.md from a device other than the
\* current one with the greatest recorded lastSync, changes the local file
\* only if that time is strictly later than the current device's own record
\* (or it has none), and leaves the file as it was when the current device's
\* record is not older.
C23_NeverOlderPeerData ==
    astage = "done" =>
        /\ (applied_from # "none" =>
              /\ applied_from # current_device
              /\ sync_info[applied_from] # NoRecord
              /\ sync_info[applied_from] = GreatestPeerTime)
        /\ (local_md # local_was =>
              /\ applied_from # "none"
              /\ (sync_info[current_device] = NoRecord
                    \/ GreatestPeerTime > sync_info[current_device]))
        /\ (sync_info[current_device] # NoRecord
              /\ GreatestPeerTime <= sync_info[current_device] =>
                 local_md = local_was)

C23_Witness ==
    /\ astage = "done"
    /\ local_md # local_was
    /\ sync_info[current_device] # NoRecord
    /\ sync_info["p1"] # NoRecord
    /\ sync_info["p2"] > sync_info["p1"]
    /\ applied_from = "p2"


\* The layout maps a local project directory to a synced project directory
\* when it places a transcript of the one in the other.
MappedTo(d, p) ==
    \E f \in mem_tree :
        /\ f.dir = d
        /\ compute_relative_path(f, mem_mode) # <<>>
        /\ compute_relative_path(f, mem_mode)[1] = p

\* C24: a file is removed from a synced project's memory directory only if
\* a local project is mapped to that synced project and no local memory
\* directory of a project mapped to it holds a file of that name; memory files
\* of synced projects without a local counterpart are never removed.
C24_MemoryDeletionScoped ==
    mem_stage = "synced" =>
        \A r \in mem_removed :
            /\ \E d \in MemDirs : MappedTo(d, r[1])
            /\ \A d \in MemDirs : MappedTo(d, r[1]) => r[2] \notin mem_local[d].files

\* What does hold of C24: nothing is removed from a synced project that no
\* discovered session leads to, and a removed name is in no memory directory
\* of a local directory that project_dir_to_sync maps to that synced project.
C24_ScopedByDiscoveredSessions ==
    mem_stage = "synced" =>
        LET mapping == project_dir_to_sync(discover_sessions(WalkOrder(mem_tree)),
                                           mem_mode)
        IN \A r \in mem_removed :
              /\ \E m \in mapping : m[2] = r[1]
              /\ \A m \in mapping : m[2] = r[1] => r[2] \notin mem_local[m[1]].files


\* A directory matches a project name by its encoded name or by the project
\* name its transcripts record.
LookupMatches(k) ==
    \/ extract_project_name(lk_entries[k].name) = lk_name
    \/ \E i \in DOMAIN lk_entries[k].files :
          /\ lk_entries[k].files[i].parsed
          /\ lk_entries[k].files[i].project_name = lk_name

\* C25: find_local_project_by_name returns a directory only when exactly
\* one local project directory matches the name, and None when none or more
\* than one matches.
C25_AmbiguousYieldsNone ==
    lk_stage = "found" =>
        LET matching == {k \in DOMAIN lk_entries : LookupMatches(k)}
        IN /\ (lk_result # 0 => Cardinality(matching) = 1)
           /\ (Cardinality(matching) # 1 => lk_result = 0)

\* What does hold of C25: a directory returned matches the name, and nothing
\* is returned when no directory matches.
C25_ReturnedDirectoryMatches ==
    lk_stage = "found" =>
        /\ (lk_result # 0 => lk_result \in DOMAIN lk_entries /\ LookupMatches(lk_result))
        /\ ((\A k \in DOMAIN lk_entries : ~LookupMatches(k)) => lk_result = 0)


\* The running push retries a killed one: same device, the local tree as the
\* killed push saw it, and the synced tree as the kill left it.
RetriesKilledPush ==
    /\ killed.dev = pusher
    /\ killed.local = local[pusher]
    /\ killed.ldirs = ldirs[pusher]
    /\ killed.synced = atStart.synced

\* C26: when a push is killed at some point from its first session write
\* onward and a later push runs to completion with no local change in
\* between, the synced tree it leaves is one a single uninterrupted push would
\* have produced.
C26_RetryConverges ==
    pc \in {"committing", "commit", "recording"} /\ RetriesKilledPush =>
        synced \in killed.results

C26_Witness ==
    /\ pc = "committing"
    /\ RetriesKilledPush
    /\ killed.synced # synced
    /\ removed # {}
    /\ writes > 0
    /\ synced \in killed.results


\* The sessions discovery returned for the synced tree as the push found it.
Snapshot == discover_sessions(WalkOrder(atStart.synced))

\* The operation the synced snapshot calls for.
ExpectedOperation(session) ==
    IF \A e \in Snapshot : e.session_id # session.session_id THEN "Added"
    ELSE IF \E e \in Snapshot : /\ e.session_id = session.session_id
                                /\ e.content_hash = session.content_hash
         THEN "Unchanged"
         ELSE "Modified"

\* C27: every local session that has a relative path is classified as exactly
\* one of Added (no synced session of that id), Unchanged (one with an equal
\* content hash) or Modified (one with a different content hash), against the
\* synced tree as it was before the first write.
C27_ClassificationTotal ==
    outcome = "running" /\ pc # "discovered" =>
        /\ \A c \in classified :
              /\ c.operation \in {"Added", "Unchanged", "Modified"}
              /\ c.operation = ExpectedOperation(c.session)
        /\ \A s \in Visited :
              IF compute_relative_path(s, cfg[pusher]) = <<>>
              THEN \A c \in classified : c.session # s
              ELSE Cardinality({c \in classified : c.session = s}) = 1

C27_Witness ==
    /\ pc = "deleting"
    /\ \E c \in classified : c.operation = "Modified"
    /\ counts.modified = 1


\* The running or last push has reached its summary.
ReachedSummary ==
    \/ outcome = "running" /\ pc = "writing" /\ todo = {}
    \/ outcome = "running" /\ pc \in {"deleting", "committing", "commit", "recording"}
    \/ outcome \in {"ok", "declined_diff"} /\ pc = "idle"

\* The discovered sessions the layout gives no relative path.
Pathless == IF cfg[pusher] THEN NoCwd(sessions) ELSE {}

\* C28: in every push that reaches the summary the four counters add up to
\* the number of sessions local discovery returned, and each session is counted
\* in exactly one of them.
C28_CountersPartition ==
    ReachedSummary =>
        /\ counts.added + counts.modified + counts.unchanged + counts.skipped
             = Cardinality(sessions)
        /\ counts.skipped = Cardinality(Pathless)
        /\ counts.added =
             Cardinality({c \in classified : c.operation = "Added"})
        /\ counts.modified =
             Cardinality({c \in classified : c.operation = "Modified"})
        /\ counts.unchanged =
             Cardinality({c \in classified : c.operation = "Unchanged"})
        /\ {c.session : c \in classified} = sessions \ Pathless
        /\ Cardinality(classified) = Cardinality(sessions \ Pathless)

C28_Witness ==
    /\ ReachedSummary
    /\ counts.skipped = 1
    /\ counts.unchanged = 1
    /\ Cardinality(sessions) = 2


\* The relative path the layout gives a discovered session that has one.
MirrorPath(s) == IF cfg[pusher] THEN <<project_name(s), s.name>> ELSE <<s.dir, s.name>>

\* The synced tree holds the session s at its relative path.
Mirrored(s) ==
    \E f \in synced :
        /\ <<f.dir, f.name>> = MirrorPath(s)
        /\ f.session_id = s.session_id
        /\ f.content_hash = s.content_hash

\* The last push ran to completion.
PushCompleted == pc = "idle" /\ outcome = "ok"

\* C29: after a push that runs to completion, the synced tree holds, at the
\* relative path of every discovered local session that has one, a session
\* with the same session_id and content hash, also when several local project
\* directories map to one synced directory.
C29_SyncedMirrorsLocal ==
    PushCompleted => \A s \in sessions \ Pathless : Mirrored(s)

\* What does hold of C29: the sessions whose relative path no other
\* discovered session shares are mirrored, whatever their classification.
C29_MirrorsWithoutPathCollision ==
    PushCompleted =>
        \A s \in sessions \ Pathless :
            (\A t \in sessions \ Pathless : MirrorPath(t) = MirrorPath(s) => t = s)
                => Mirrored(s)


\* C30: merging the same source again into the result of a merge gives the
\* same document: merge_claude_md(source, merge_claude_md(source, target, P), P)
\* equals merge_claude_md(source, target, P).
C30_MergeFixpoint ==
    mstage = "merged" => merge_claude_md(source, merged, current) = merged


\* The source leaves no opening tag behind once its blocks are removed.
SourceTagsClosed ==
    LET source_common == cleanup_blank_lines(ReplaceAllBlocks(source, 1))
    IN \A k \in 1..Len(source_common) : ~MatchesOpenTag(source_common[k])

\* What does hold of C30: the merge is a fixpoint on re-application for a
\* source whose opening tags are all closed.
C30_FixpointWhenSourceTagsClosed ==
    mstage = "merged" /\ SourceTagsClosed =>
        merge_claude_md(source, merged, current) = merged

===========================================================================
